---------------------------- MODULE Spec2Model ----------------------------
(***************************************************************************)
(* Lichess Puzzle Printer: puzzle acquisition (PuzzleFetcher), the samplers *)
(* over the puzzle database, the request handlers that drive them, the      *)
(* board renderer and the worksheet generator (PuzzlePDFGenerator).         *)
(* Python dicts are functions with string domains (d.get(k, default) is     *)
(* Get), lists are sequences, and the chess library is a black box that     *)
(* parses a FEN, parses a UCI move, tells whether a move is legal, writes   *)
(* it in algebraic notation and pushes it.                                  *)
(* Spec runs one request or one direct call at a time, FairSpec the calls   *)
(* of fetch_puzzles_by_theme under fairness of the probing loop, ConcSpec   *)
(* two requests at once.                                                    *)
(***************************************************************************)
EXTENDS Integers, Sequences, FiniteSets, TLC

VARIABLES
    pc,          \* position of the single control thread
    caller,      \* "none" | "web" (generate_puzzles) | "cli" (main)
    req,         \* arguments of the running call: theme, min_rating, max_rating, count
    activity,    \* outcome of the activity request of the running fetch
    puzzles,     \* local list `puzzles` of fetch_puzzles_by_theme and of the stream sampler
    rnd,         \* frame of _fetch_random_puzzles: its puzzles, attempts, count, caller's branch
    discarded,   \* the list `puzzles` held when the except branch replaced it
    fetched,     \* value returned by fetch_puzzles_by_theme
    response,    \* what the request handler answered
    document,    \* whether PuzzlePDFGenerator.generate was started
    puzzle_cache,\* PuzzleFetcher._puzzle_cache
    pool,        \* the rows / table offered to the sampler that ran last
    sampled,     \* value returned by the sampler that ran last
    canvas,      \* PuzzlePDFGenerator.generate: the pages of the canvas `c`
    formatted,   \* the last call of _format_solution: arguments and result
    image,       \* the last call of ChessBoardRenderer.render_position
    puzzle_fetcher, \* app.py: the global _puzzle_fetcher (0 is None)
    instances,   \* how many PuzzleFetcher objects were constructed
    frames,      \* the locals of each running call of fetch_puzzles_by_theme
    threads      \* each concurrent request: its position, arguments and result

\* what the worksheet generator writes
print_vars == <<canvas, formatted, image>>

\* what two concurrent requests read and write
conc_vars == <<puzzle_fetcher, instances, frames, threads>>

\* what the single request and the direct calls read and write
seq_vars == <<pc, caller, req, activity, puzzles, rnd, discarded, fetched, response,
             document, puzzle_cache, pool, sampled, print_vars>>

vars == <<seq_vars, conc_vars>>

---------------------------------------------------------------------------
(* Bounds of the model *)

MaxCount == 2        \* largest count requested of a run that reaches acquisition
MaxActivity == 2     \* longest activity batch
MaxRows == 2         \* longest database file / stream (in described rows)
MaxMoves == 3        \* longest move list given to _format_solution

(* Program constants *)

MaxPuzzleCount == 36       \* app.py: count > 36 is rejected
ProbeFactor == 50          \* _fetch_random_puzzles: max_attempts = count * 50
oversample_multiplier == 5 \* _fetch_from_database_stream
max_iterations == 100      \* _fetch_from_database_stream (times 1000 rows)
DefaultFilterRating == 0   \* puzzle_data.get('rating', 0)
DefaultReportRating == 1000\* puzzle_data.get('rating', 1000)

---------------------------------------------------------------------------
(* Python helpers *)

Get(d, k, default) == IF k \in DOMAIN d THEN d[k] ELSE default

EmptyDict == [k \in {} |-> TRUE]

IsEmptyDict(d) == DOMAIN d = {}

Min(a, b) == IF a < b THEN a ELSE b

Take(s, n) == SubSeq(s, 1, Min(n, Len(s)))

Range(s) == {s[i] : i \in 1..Len(s)}

\* str.lower() on the theme tags that occur
LowerTable ==
    [t \in {"fork", "Fork", "pin", "short", "mateIn2", "matein2"} |->
        CASE t = "Fork" -> "fork"
          [] t = "mateIn2" -> "matein2"
          [] OTHER -> t]

Lower(t) == LowerTable[t]

\* theme.lower() in [t.lower() for t in themes]
ThemeIn(theme, themes) == Lower(theme) \in {Lower(themes[i]) : i \in 1..Len(themes)}

---------------------------------------------------------------------------
(* The chess library, as the program uses it.  A FEN is described by what   *)
(* the library reads from it: whether it parses, the placement it starts    *)
(* from, the moves pushed since, the side to move and the full-move number. *)

FenW == [valid |-> TRUE, start |-> "posW", played |-> <<>>, turn |-> "w", fullmove |-> 1]
FenB == [valid |-> TRUE, start |-> "posB", played |-> <<>>, turn |-> "b", fullmove |-> 27]
FenBad == [valid |-> FALSE, start |-> "garbage", played |-> <<>>, turn |-> "w", fullmove |-> 0]
FenEmpty == [valid |-> FALSE, start |-> "", played |-> <<>>, turn |-> "w", fullmove |-> 0]
\* the literal default of puzzle_data.get('fen', ...)
FenStart == [valid |-> TRUE, start |-> "startpos", played |-> <<>>, turn |-> "w", fullmove |-> 1]

\* chess.Move.from_uci: the square pair of a well-formed coordinate move
UciTable ==
    [u \in {"e2e4", "e7e5", "g1f3"} |->
        CASE u = "e2e4" -> [from_square |-> "e2", to_square |-> "e4"]
          [] u = "e7e5" -> [from_square |-> "e7", to_square |-> "e5"]
          [] u = "g1f3" -> [from_square |-> "g1", to_square |-> "f3"]]

\* from_uci raises on anything else ("zz" here)
UciParses(u) == u \in DOMAIN UciTable

from_uci(u) == UciTable[u]

\* chess.Board(fen) raises ValueError when the text does not parse
BoardParses(fen) == fen.valid

Board(fen) == [start |-> fen.start, played |-> fen.played, turn |-> fen.turn,
               fullmove |-> fen.fullmove]

\* board.push(move): the move is played, the turn passes, and the full-move
\* number grows after a Black move
push(board, move) ==
    [start |-> board.start,
     played |-> Append(board.played, move),
     turn |-> IF board.turn = "w" THEN "b" ELSE "w",
     fullmove |-> IF board.turn = "b" THEN board.fullmove + 1 ELSE board.fullmove]

\* board.fen()
fen_of(board) == [valid |-> TRUE, start |-> board.start, played |-> board.played,
                  turn |-> board.turn, fullmove |-> board.fullmove]

\* the squares the moves of UciTable touch
Squares == {"e2", "e4", "e7", "e5", "g1", "f3"}

\* the colour standing on each of them in every placement that parses:
\* White on e2 and g1, Black on e7
StartPlacement ==
    [sq \in Squares |->
        CASE sq \in {"e2", "g1"} -> "w"
          [] sq = "e7" -> "b"
          [] OTHER -> "-"]

\* the placement after the pushed moves: push moves whatever stands on the
\* from-square, legal or not
RECURSIVE placement_after(_, _)
placement_after(placement, played) ==
    IF played = <<>> THEN placement
    ELSE placement_after(
            [placement EXCEPT ![Head(played).to_square] = placement[Head(played).from_square],
                              ![Head(played).from_square] = "-"],
            Tail(played))

piece_at(board, sq) == placement_after(StartPlacement, board.played)[sq]

\* move in board.legal_moves: the side to move has a piece on the
\* from-square and none on the to-square
legal_moves(board) ==
    {from_uci(u) : u \in {v \in DOMAIN UciTable :
        /\ piece_at(board, from_uci(v).from_square) = board.turn
        /\ piece_at(board, from_uci(v).to_square) # board.turn}}

\* board.san(move), for the moves of UciTable
SanTable ==
    [u \in DOMAIN UciTable |->
        CASE u = "e2e4" -> "e4"
          [] u = "e7e5" -> "e5"
          [] u = "g1f3" -> "Nf3"]

san(board, move_uci) == SanTable[move_uci]

---------------------------------------------------------------------------
(* Remote records: the nested puzzle object of the activity, daily and      *)
(* by-id responses.  A key the response lacks is a key the dict lacks.      *)

ApiA == [id |-> "A", fen |-> FenW, solution |-> <<"e2e4", "e7e5">>, rating |-> 900,
         themes |-> <<"fork", "short">>]
\* no rating and no fen
ApiC == [id |-> "C", solution |-> <<"e2e4">>, themes |-> <<"fork">>]
\* the setup move does not parse
ApiD == [id |-> "D", fen |-> FenW, solution |-> <<"zz", "e7e5">>, rating |-> 1000,
         themes |-> <<"Fork">>]
\* the position does not parse
ApiF == [id |-> "F", fen |-> FenBad, solution |-> <<"e2e4">>, rating |-> 450,
         themes |-> <<"fork">>]
ApiG == [id |-> "G", fen |-> FenB, solution |-> <<"e7e5", "g1f3">>, rating |-> 1400,
         themes |-> <<"pin">>]
\* above every band
ApiH == [id |-> "H", fen |-> FenW, solution |-> <<"e2e4", "e7e5">>, rating |-> 1500,
         themes |-> <<"fork">>]

ApiPuzzles == {ApiA, ApiC, ApiD, ApiF, ApiG, ApiH, EmptyDict}

\* a JSON value that is not an object: .get on it raises AttributeError
NotADict == [not_a_dict |-> TRUE]

IsDict(v) == "not_a_dict" \notin DOMAIN v

\* bodies of the daily and by-id responses
PuzzleJsons == {[puzzle |-> pd] : pd \in ApiPuzzles} \cup {EmptyDict, NotADict}

\* entries of the activity response
ActivityEntries == {[puzzle |-> pd] : pd \in ApiPuzzles} \cup {EmptyDict, NotADict}

SeqsUpTo(S, n) == UNION {[1..k -> S] : k \in 0..n}

ActivityBatches == SeqsUpTo(ActivityEntries, MaxActivity)

\* what requests ask for
Themes == {"Fork", "pin"}
Bands == {<<800, 1400>>, <<0, 500>>}
InvertedBand == <<1400, 800>>

NoneValue == [none |-> TRUE]

NoRequest == [theme |-> "", min_rating |-> 0, max_rating |-> 0, count |-> 0]

NoFrame == [puzzles |-> <<>>, attempts |-> 0, count |-> 0, mode |-> "none"]

---------------------------------------------------------------------------
(* PuzzleFetcher *)

\* _matches_criteria
matches_criteria(puzzle_data, theme, min_rating, max_rating) ==
    IF IsEmptyDict(puzzle_data) THEN FALSE
    ELSE LET rating == Get(puzzle_data, "rating", DefaultFilterRating)
             themes == Get(puzzle_data, "themes", <<>>)
         IN IF rating < min_rating \/ rating > max_rating THEN FALSE
            ELSE IF ~ThemeIn(theme, themes) THEN FALSE
            ELSE TRUE

\* the try block of _format_api_puzzle: does anything in it raise
api_derivation_raises(initial_fen, solution_moves) ==
    \/ ~BoardParses(initial_fen)
    \/ solution_moves # <<>> /\ ~UciParses(solution_moves[1])

\* 'fen' of the formatted puzzle
api_puzzle_fen(initial_fen, solution_moves) ==
    IF api_derivation_raises(initial_fen, solution_moves) THEN initial_fen
    ELSE IF solution_moves # <<>>
         THEN fen_of(push(Board(initial_fen), from_uci(solution_moves[1])))
         ELSE initial_fen

\* mutant: the solution is kept whole, setup move included
api_actual_solution_unsliced(initial_fen, solution_moves) == solution_moves

\* 'moves' of the formatted puzzle
api_actual_solution(initial_fen, solution_moves) ==
    IF api_derivation_raises(initial_fen, solution_moves) THEN solution_moves
    ELSE IF solution_moves # <<>> THEN Tail(solution_moves)
         ELSE <<>>

\* _format_api_puzzle
format_api_puzzle(puzzle_data) ==
    IF IsEmptyDict(puzzle_data) THEN NoneValue
    ELSE LET initial_fen == Get(puzzle_data, "fen", FenStart)
             solution_moves == Get(puzzle_data, "solution", <<>>)
         IN [id |-> Get(puzzle_data, "id", "unknown"),
             fen |-> api_puzzle_fen(initial_fen, solution_moves),
             moves |-> api_actual_solution(initial_fen, solution_moves),
             rating |-> Get(puzzle_data, "rating", DefaultReportRating),
             themes |-> Get(puzzle_data, "themes", <<>>)]

\* the loop over the activity batch in fetch_puzzles_by_theme; raised tells
\* that an entry made the loop raise, with acc as collected until then
RECURSIVE ActivityLoop(_, _, _)
ActivityLoop(entries, acc, r) ==
    IF entries = <<>> THEN [puzzles |-> acc, raised |-> FALSE]
    ELSE IF Len(acc) >= r.count THEN [puzzles |-> acc, raised |-> FALSE]
    ELSE LET entry == Head(entries) IN
         IF ~IsDict(entry) THEN [puzzles |-> acc, raised |-> TRUE]
         ELSE LET puzzle_data == Get(entry, "puzzle", EmptyDict)
                  puzzle_rating == Get(puzzle_data, "rating", DefaultFilterRating)
                  puzzle_themes == Get(puzzle_data, "themes", <<>>)
              IN IF puzzle_rating < r.min_rating \/ puzzle_rating > r.max_rating
                 THEN ActivityLoop(Tail(entries), acc, r)
                 ELSE IF ~ThemeIn(r.theme, puzzle_themes)
                 THEN ActivityLoop(Tail(entries), acc, r)
                 ELSE ActivityLoop(Tail(entries),
                                   Append(acc, format_api_puzzle(puzzle_data)), r)

\* a response body handled by _fetch_random_puzzles: the list with the
\* record appended when the body holds a matching puzzle (a body that
\* raises is swallowed by the except around it)
probe_result(acc, json, r) ==
    IF ~IsDict(json) THEN acc
    ELSE LET puzzle_data == Get(json, "puzzle", EmptyDict)
         IN IF matches_criteria(puzzle_data, r.theme, r.min_rating, r.max_rating)
            THEN Append(acc, format_api_puzzle(puzzle_data))
            ELSE acc

\* mutant: the loop runs until enough puzzles are found
probe_loop_continues_uncapped(frame) == Len(frame.puzzles) < frame.count

\* while len(puzzles) < count and attempts < max_attempts
probe_loop_continues(frame) ==
    Len(frame.puzzles) < frame.count /\ frame.attempts < frame.count * ProbeFactor

\* return puzzles[:count]
fetch_return(list, count) == Take(list, count)

---------------------------------------------------------------------------
(* The puzzle database: rows of lichess_db_puzzle.csv as csv.DictReader     *)
(* yields them, every field a text.                                         *)

\* str.split() on the Moves and Themes texts that occur
SplitTable ==
    [t \in {"", "e2e4 e7e5", "e7e5 g1f3", "zz e7e5", "fork short", "Fork", "fork", "pin"} |->
        CASE t = "" -> <<>>
          [] t = "e2e4 e7e5" -> <<"e2e4", "e7e5">>
          [] t = "e7e5 g1f3" -> <<"e7e5", "g1f3">>
          [] t = "zz e7e5" -> <<"zz", "e7e5">>
          [] t = "fork short" -> <<"fork", "short">>
          [] OTHER -> <<t>>]

split(t) == SplitTable[t]

\* int() on the Rating texts that occur; it raises ValueError on any other
IntTable ==
    [t \in {"450", "900", "1000", "1400"} |->
        CASE t = "450" -> 450
          [] t = "900" -> 900
          [] t = "1000" -> 1000
          [] t = "1400" -> 1400]

IntParses(t) == t \in DOMAIN IntTable

int(t) == IntTable[t]

Row1 == [PuzzleId |-> "r1", FEN |-> FenW, Moves |-> "e2e4 e7e5", Rating |-> "900",
         Themes |-> "fork short"]
Row2 == [PuzzleId |-> "r2", FEN |-> FenB, Moves |-> "e7e5 g1f3", Rating |-> "1400",
         Themes |-> "Fork"]
\* the setup move does not parse
Row3 == [PuzzleId |-> "r3", FEN |-> FenW, Moves |-> "zz e7e5", Rating |-> "1000",
         Themes |-> "fork"]
\* no identifier
Row4 == [PuzzleId |-> "", FEN |-> FenW, Moves |-> "e2e4 e7e5", Rating |-> "900",
         Themes |-> "fork"]
\* the rating is no number
Row5 == [PuzzleId |-> "r5", FEN |-> FenW, Moves |-> "e2e4 e7e5", Rating |-> "n/a",
         Themes |-> "fork"]
Row6 == [PuzzleId |-> "r6", FEN |-> FenB, Moves |-> "e7e5 g1f3", Rating |-> "1000",
         Themes |-> "pin"]
Row7 == [PuzzleId |-> "r7", FEN |-> FenW, Moves |-> "e2e4 e7e5", Rating |-> "450",
         Themes |-> "fork"]

DbRows == {Row1, Row2, Row3, Row4, Row5, Row6, Row7}

IsInjective(s) == \A i, j \in DOMAIN s : s[i] = s[j] => i = j

\* files of distinct rows
RowSeqs == {s \in SeqsUpTo(DbRows, MaxRows) : IsInjective(s)}

\* the loop of the database loader over the rows of the local file
RECURSIVE load_database(_)
load_database(rows) ==
    IF rows = <<>> THEN <<>>
    ELSE LET row == Head(rows)
             puzzle_id == row.PuzzleId
             fen == row.FEN
             moves == split(row.Moves)
         IN IF ~IntParses(row.Rating) THEN load_database(Tail(rows))
            ELSE IF puzzle_id = "" \/ fen.start = "" \/ moves = <<>>
            THEN load_database(Tail(rows))
            ELSE <<[id |-> puzzle_id, fen |-> fen, moves |-> moves,
                    rating |-> int(row.Rating), themes |-> split(row.Themes)]>>
                 \o load_database(Tail(rows))

\* _sample_from_cache: the filter loop
RECURSIVE cache_matching(_, _)
cache_matching(cache, r) ==
    IF cache = <<>> THEN <<>>
    ELSE LET puzzle == Head(cache) IN
         IF puzzle.rating < r.min_rating \/ puzzle.rating > r.max_rating
         THEN cache_matching(Tail(cache), r)
         ELSE IF ~ThemeIn(r.theme, puzzle.themes)
         THEN cache_matching(Tail(cache), r)
         ELSE <<puzzle>> \o cache_matching(Tail(cache), r)

\* mutant: every match is sampled
sample_size_all(count, matching) == Len(matching)

\* sample_size = min(count, len(matching))
sample_size(count, matching) == Min(count, Len(matching))

\* random.sample(population, k): any k elements at distinct places, in any order
RandomSamples(population, k) ==
    {[i \in 1..k |-> population[ix[i]]] :
        ix \in {f \in [1..k -> 1..Len(population)] : IsInjective(f)}}

\* _sample_from_cache: the conversion loop over the sampled puzzles; a
\* puzzle whose position or setup move does not parse is skipped
RECURSIVE cache_convert(_)
cache_convert(picked) ==
    IF picked = <<>> THEN <<>>
    ELSE LET puzzle == Head(picked) IN
         IF ~BoardParses(puzzle.fen) \/ (puzzle.moves # <<>> /\ ~UciParses(puzzle.moves[1]))
         THEN cache_convert(Tail(picked))
         ELSE <<[id |-> puzzle.id,
                 fen |-> IF puzzle.moves # <<>>
                         THEN fen_of(push(Board(puzzle.fen), from_uci(puzzle.moves[1])))
                         ELSE puzzle.fen,
                 moves |-> IF puzzle.moves # <<>> THEN Tail(puzzle.moves) ELSE <<>>,
                 rating |-> puzzle.rating,
                 themes |-> puzzle.themes]>>
              \o cache_convert(Tail(picked))

\* _sample_from_cache: what it may return
sample_from_cache(cache, r) ==
    IF cache = <<>> THEN {<<>>}
    ELSE LET matching == cache_matching(cache, r) IN
         IF matching = <<>> THEN {<<>>}
         ELSE {cache_convert(picked) :
                 picked \in RandomSamples(matching, sample_size(r.count, matching))}

---------------------------------------------------------------------------
(* _fetch_from_database_stream.  The stream is described run-length: each   *)
(* item is a row preceded by `gap` rows that fail the rating filter.        *)

GapChoices == {0, max_iterations * 1000 - 2}

StreamItems == {[gap |-> g, row |-> row] : g \in GapChoices, row \in DbRows}

Streams == {s \in SeqsUpTo(StreamItems, MaxRows) :
               IsInjective([i \in DOMAIN s |-> s[i].row])}

\* rows of a long run of matches: "pin" puzzles rated 1000, one per number
BulkRow(i) == [PuzzleId |-> "b" \o ToString(i), FEN |-> FenW, Moves |-> "e2e4 e7e5",
               Rating |-> "1000", Themes |-> "pin"]

\* one row more than a request for one puzzle collects
BulkLen == oversample_multiplier + 1

\* streams of BulkLen - 1 or BulkLen matching rows, the last of them right
\* behind the others or far down the stream
BulkStreams ==
    {[i \in 1..n |-> [gap |-> IF i = n THEN g ELSE 0, row |-> BulkRow(i)]] :
        n \in {BulkLen - 1, BulkLen}, g \in GapChoices}

\* mutant: one candidate more per requested puzzle
target_samples_six(count) == count * (oversample_multiplier + 1)

\* target_samples = count * oversample_multiplier
target_samples(count) == count * oversample_multiplier

\* iteration >= max_iterations * 1000
scan_cap_reached(iteration) == iteration >= max_iterations * 1000

\* the body of the row loop below the two stop tests: the list with the
\* row's puzzle appended when the row passes, parses and derives
stream_row(acc, row, r) ==
    IF ~IntParses(row.Rating) THEN acc
    ELSE LET puzzle_rating == int(row.Rating)
             puzzle_themes == split(row.Themes)
             puzzle_id == row.PuzzleId
             fen == row.FEN
             moves == split(row.Moves)
         IN IF puzzle_rating < r.min_rating \/ puzzle_rating > r.max_rating THEN acc
            ELSE IF ~ThemeIn(r.theme, puzzle_themes) THEN acc
            ELSE IF puzzle_id = "" \/ fen.start = "" \/ moves = <<>> THEN acc
            ELSE IF ~BoardParses(fen) \/ ~UciParses(moves[1]) THEN acc
            ELSE Append(acc,
                        [id |-> puzzle_id,
                         fen |-> fen_of(push(Board(fen), from_uci(moves[1]))),
                         moves |-> Tail(moves),
                         rating |-> puzzle_rating,
                         themes |-> puzzle_themes])

\* the row loop: iteration counts the rows read so far
RECURSIVE stream_loop(_, _, _, _)
stream_loop(items, acc, iteration, r) ==
    IF items = <<>> THEN acc
    ELSE IF Len(acc) >= target_samples(r.count) THEN acc
    ELSE LET item == Head(items)
             at_row == iteration + item.gap + 1
         IN IF scan_cap_reached(at_row) THEN acc
            ELSE stream_loop(Tail(items), stream_row(acc, item.row, r), at_row, r)

\* mutant: a short list is padded by cycling through it, as the curated table is
stream_truncate_padded(shuffled, count) == Take(shuffled \o shuffled, count)

\* puzzles[:count] of the shuffled candidates
stream_truncate(shuffled, count) == Take(shuffled, count)

\* the list `puzzles` when the row loop is left
stream_candidates(items, failed, r) ==
    IF failed THEN <<>> ELSE stream_loop(items, <<>>, 0, r)

\* _fetch_from_database_stream: what it may return; failed tells that the
\* download or the decompression raised
fetch_from_database_stream(items, failed, r) ==
    IF failed THEN {<<>>}
    ELSE LET candidates == stream_loop(items, <<>>, 0, r) IN
         IF candidates = <<>> THEN {<<>>}
         ELSE {stream_truncate(shuffled, r.count) :
                 shuffled \in RandomSamples(candidates, Len(candidates))}

---------------------------------------------------------------------------
(* _get_sample_puzzles: the embedded table *)

SampleFen(name, turn) ==
    [valid |-> TRUE, start |-> name, played |-> <<>>, turn |-> turn, fullmove |-> 1]

all_samples ==
    [t \in {"mateIn1", "mateIn2", "fork", "pin"} |->
      CASE t = "mateIn1" ->
             <<[id |-> "00A6n", fen |-> SampleFen("00A6n", "b"), moves |-> <<"f6f4">>,
                rating |-> 800, themes |-> <<"mateIn1">>],
               [id |-> "00GGp", fen |-> SampleFen("00GGp", "w"), moves |-> <<"d1d7">>,
                rating |-> 900, themes |-> <<"mateIn1">>],
               [id |-> "00Ifm", fen |-> SampleFen("00Ifm", "w"), moves |-> <<"d1d8">>,
                rating |-> 950, themes |-> <<"mateIn1">>],
               [id |-> "00JZw", fen |-> SampleFen("00JZw", "w"), moves |-> <<"f3f7">>,
                rating |-> 700, themes |-> <<"mateIn1">>]>>
        [] t = "mateIn2" ->
             <<[id |-> "003MO", fen |-> SampleFen("003MO", "w"),
                moves |-> <<"d4f5", "g8h8", "d2h6">>, rating |-> 1100,
                themes |-> <<"mateIn2">>],
               [id |-> "004KG", fen |-> SampleFen("004KG", "w"),
                moves |-> <<"e4f6", "d5e5", "e2e5">>, rating |-> 1200,
                themes |-> <<"mateIn2">>],
               [id |-> "005pJ", fen |-> SampleFen("005pJ", "b"),
                moves |-> <<"c6d4", "f3d4", "d8d4">>, rating |-> 1150,
                themes |-> <<"mateIn2">>],
               [id |-> "006Np", fen |-> SampleFen("006Np", "b"),
                moves |-> <<"f6g4", "e1g1", "d8h4">>, rating |-> 1000,
                themes |-> <<"mateIn2">>]>>
        [] t = "fork" ->
             <<[id |-> "00EjM", fen |-> SampleFen("00EjM", "w"), moves |-> <<"f3e5">>,
                rating |-> 900, themes |-> <<"fork">>],
               [id |-> "00Hki", fen |-> SampleFen("00Hki", "w"), moves |-> <<"f3g5">>,
                rating |-> 950, themes |-> <<"fork">>]>>
        [] t = "pin" ->
             <<[id |-> "00CzZ", fen |-> SampleFen("00CzZ", "b"), moves |-> <<"c6a5">>,
                rating |-> 850, themes |-> <<"pin">>]>>]

\* all_samples.get(theme, all_samples.get('mateIn2', []))
theme_samples(theme) ==
    IF theme \in DOMAIN all_samples THEN all_samples[theme] ELSE all_samples["mateIn2"]

RECURSIVE rating_filter(_, _)
rating_filter(list, r) ==
    IF list = <<>> THEN <<>>
    ELSE IF r.min_rating <= Head(list).rating /\ Head(list).rating <= r.max_rating
         THEN <<Head(list)>> \o rating_filter(Tail(list), r)
         ELSE rating_filter(Tail(list), r)

\* filtered, before the shuffle: all of the theme's entries when none is in the band
sample_filtered(theme, r) ==
    LET filtered == rating_filter(theme_samples(theme), r)
    IN IF filtered = <<>> THEN theme_samples(theme) ELSE filtered

\* the for loop over filtered: result and puzzle_set after it
RECURSIVE sample_pass(_, _, _, _)
sample_pass(list, result, puzzle_set, count) ==
    IF list = <<>> THEN [result |-> result, puzzle_set |-> puzzle_set]
    ELSE LET puzzle == Head(list) IN
         IF puzzle.id \notin puzzle_set
         THEN IF Len(result) + 1 >= count
              THEN [result |-> Append(result, puzzle),
                    puzzle_set |-> puzzle_set \cup {puzzle.id}]
              ELSE sample_pass(Tail(list), Append(result, puzzle),
                               puzzle_set \cup {puzzle.id}, count)
         ELSE sample_pass(Tail(list), result, puzzle_set, count)

\* the while loop
RECURSIVE sample_while(_, _, _, _)
sample_while(filtered, result, puzzle_set, count) ==
    IF ~(Len(result) < count) THEN result
    ELSE LET after == sample_pass(filtered, result, puzzle_set, count) IN
         IF Len(after.result) < count /\ Len(after.result) = Len(filtered)
         THEN after.result \o Take(filtered, count - Len(after.result))
         ELSE sample_while(filtered, after.result, after.puzzle_set, count)

\* return result[:count]
sample_return(result, count) == Take(result, count)

\* _get_sample_puzzles: what it may return
get_sample_puzzles(r) ==
    LET filtered == sample_filtered(r.theme, r) IN
    {sample_return(sample_while(shuffled, <<>>, {}, r.count), r.count) :
        shuffled \in RandomSamples(filtered, Len(filtered))}

---------------------------------------------------------------------------
(* PuzzlePDFGenerator._format_solution.  A token of solution_parts is the   *)
(* format it was built with, the move number and the text put into it.      *)

\* the loop over piece_symbols: every piece letter becomes its figurine
SymbolTable ==
    [s \in {SanTable[u] : u \in DOMAIN SanTable} |->
        CASE s = "Nf3" -> "<knight>f3"
          [] OTHER -> s]

san_with_symbols(s) == SymbolTable[s]

\* f"[{move_uci}]"
Bracketed(move_uci) == [form |-> "[uci]", num |-> 0, text |-> move_uci]

\* f"{move_num}. {san_with_symbols}"
WhiteNumbered(move_num, s) == [form |-> "n. san", num |-> move_num, text |-> s]

\* f"{move_num}... {san_with_symbols}"
BlackNumbered(move_num, s) == [form |-> "n... san", num |-> move_num, text |-> s]

\* the bare san_with_symbols
Bare(s) == [form |-> "san", num |-> 0, text |-> s]

\* '...' in str(part): of the tokens built from the moves of the model, the
\* ones numbered for Black
has_ellipsis(part) == part.form = "n... san"

\* mutant: an illegal move leaves no token
illegal_parts_dropped(solution_parts, move_uci) == solution_parts

\* solution_parts after a move that is not legal
illegal_parts(solution_parts, move_uci) == Append(solution_parts, Bracketed(move_uci))

\* mutant: an illegal move is played all the same
board_after_illegal_pushed(temp_board, move) == push(temp_board, move)

\* temp_board after a move that is not legal: `continue` skips the push
board_after_illegal(temp_board, move) == temp_board

\* one turn of the loop over moves
format_move(solution_parts, temp_board, move_uci) ==
    IF ~UciParses(move_uci)
    THEN [parts |-> Append(solution_parts, Bracketed(move_uci)), board |-> temp_board]
    ELSE LET move == from_uci(move_uci) IN
         IF move \notin legal_moves(temp_board)
         THEN [parts |-> illegal_parts(solution_parts, move_uci),
               board |-> board_after_illegal(temp_board, move)]
         ELSE LET s == san_with_symbols(san(temp_board, move_uci))
                  move_num == temp_board.fullmove
                  part == IF temp_board.turn = "w" THEN WhiteNumbered(move_num, s)
                          ELSE IF solution_parts = <<>>
                                  \/ ~has_ellipsis(solution_parts[Len(solution_parts)])
                               THEN BlackNumbered(move_num, s)
                               ELSE Bare(s)
              IN [parts |-> Append(solution_parts, part), board |-> push(temp_board, move)]

\* the loop over moves; positions records temp_board after every turn
RECURSIVE format_loop(_, _, _, _)
format_loop(moves, solution_parts, temp_board, positions) ==
    IF moves = <<>> THEN [parts |-> solution_parts, positions |-> positions]
    ELSE LET after == format_move(solution_parts, temp_board, Head(moves))
         IN format_loop(Tail(moves), after.parts, after.board,
                        Append(positions, after.board))

\* _format_solution: the text returned (the tokens joined by blanks, or one
\* of the two fixed texts), with the tokens and positions behind it
format_solution(board, moves) ==
    IF moves = <<>>
    THEN [text |-> "No solution available", parts |-> <<>>, positions |-> <<>>]
    ELSE LET done == format_loop(moves, <<>>, board, <<>>)
         IN [text |-> IF done.parts # <<>> THEN "joined" ELSE "Error formatting solution",
             parts |-> done.parts, positions |-> done.positions]

\* positions and move lists _format_solution is called with
FormatBoards == {Board(FenW), Board(FenB), push(Board(FenW), from_uci("e2e4"))}

FormatMoves == DOMAIN UciTable \cup {"zz"}

MoveLists == SeqsUpTo(FormatMoves, MaxMoves)

NotFormatted == [called |-> FALSE, board |-> Board(FenW), moves |-> <<>>, text |-> "",
                 parts |-> <<>>, positions |-> <<>>]

---------------------------------------------------------------------------
(* ChessBoardRenderer.render_position.  drawing_fails tells whether a step  *)
(* inside its try block raises (a font or drawing call of the host).        *)

\* the rows and columns of the drawn grid: row 0 is the top row, column 0
\* the left column (y and x grow with rank and file of the loops)
GridCells == (0..7) \X (0..7)

\* 'abcdefgh' and '87654321' letter by letter, and reversed
FilesAH == <<"a", "b", "c", "d", "e", "f", "g", "h">>
FilesHA == <<"h", "g", "f", "e", "d", "c", "b", "a">>
Ranks81 == <<"8", "7", "6", "5", "4", "3", "2", "1">>
Ranks18 == <<"1", "2", "3", "4", "5", "6", "7", "8">>

\* board_rank = (7 - rank) if not flipped else rank
board_rank(rank, flipped) == IF ~flipped THEN 7 - rank ELSE rank

\* mutant: the files keep their order when the board is flipped
board_file_kept(file, flipped) == file

\* board_file = file if not flipped else (7 - file)
board_file(file, flipped) == IF ~flipped THEN file ELSE 7 - file

\* square_num = board_rank * 8 + board_file, for every cell of the grid
drawn_squares(flipped) ==
    [cell \in GridCells |->
        board_rank(cell[1], flipped) * 8 + board_file(cell[2], flipped)]

\* no grid and no labels
NoGrid == [cell \in {} |-> 0]

\* the call ends in an exception
RenderRaised == [raised |-> TRUE, blank |-> FALSE, size |-> 0, flipped |-> FALSE,
                 squares |-> NoGrid, files |-> <<>>, ranks |-> <<>>]

\* Image.new('RGB', (400, 400), 'white') of the except branch
BlankImage == [raised |-> FALSE, blank |-> TRUE, size |-> 400, flipped |-> FALSE,
               squares |-> NoGrid, files |-> <<>>, ranks |-> <<>>]

\* chess.Board(fen) stands before the try, so a text that does not parse
\* raises out of the call
render_position(fen, drawing_fails) ==
    IF ~BoardParses(fen) THEN RenderRaised
    ELSE LET board == Board(fen)
             flipped == ~(board.turn = "w")
         IN IF drawing_fails THEN BlankImage
            ELSE [raised |-> FALSE, blank |-> FALSE, size |-> 480, flipped |-> flipped,
                  squares |-> drawn_squares(flipped),
                  files |-> IF ~flipped THEN FilesAH ELSE FilesHA,
                  ranks |-> IF ~flipped THEN Ranks81 ELSE Ranks18]

\* position texts render_position is called with
RenderFens == {FenW, FenB, FenBad, FenEmpty, fen_of(push(Board(FenW), from_uci("e2e4"))),
               fen_of(push(Board(FenB), from_uci("e7e5")))}

NotRendered == [called |-> FALSE, fen |-> FenW, drawing_fails |-> FALSE,
                result |-> BlankImage]

---------------------------------------------------------------------------
(* PuzzlePDFGenerator.  Lengths are in hundredths of a point.  A page is    *)
(* its kind and number with the diagrams or the solution lines drawn on it. *)

puzzles_per_page == 9
grid == 3                  \* rows and columns of positions on a puzzle page
solutions_per_page == 30
inch == 7200
page_height == 79200       \* letter
line_height == (18 * inch) \div 100
top_margin == inch
bottom_margin == inch \div 2

\* _draw_puzzle: chess.Board(puzzle['fen']) stands outside any try
draw_puzzle_raises(puzzle) == ~BoardParses(puzzle.fen)

\* _draw_puzzle, for a puzzle whose position parses
draw_puzzle(puzzle, puzzle_num, drawing_fails) ==
    [num |-> puzzle_num,
     id |-> puzzle.id,
     rating |-> puzzle.rating,
     side_to_move |-> IF Board(puzzle.fen).turn = "w" THEN "White" ELSE "Black",
     img |-> LET img == render_position(puzzle.fen, drawing_fails)
             IN [blank |-> img.blank, size |-> img.size, flipped |-> img.flipped]]

\* mutant: the numbers start again on every page
puzzle_number_on_page(idx, page_num) == idx + 1

\* the number _draw_puzzle is given: idx + 1 + (page_num - 1) * puzzles_per_page
puzzle_number(idx, page_num) == idx + 1 + (page_num - 1) * puzzles_per_page

\* the loop of _draw_puzzle_page over the puzzles of one page
RECURSIVE draw_puzzle_page(_, _, _, _, _)
draw_puzzle_page(page_puzzles, idx, page_num, diagrams, drawing_fails) ==
    IF idx >= Len(page_puzzles) THEN [diagrams |-> diagrams, raised |-> FALSE]
    ELSE IF idx >= grid * grid THEN [diagrams |-> diagrams, raised |-> FALSE]
    ELSE IF draw_puzzle_raises(page_puzzles[idx + 1])
         THEN [diagrams |-> diagrams, raised |-> TRUE]
         ELSE draw_puzzle_page(page_puzzles, idx + 1, page_num,
                  Append(diagrams,
                         draw_puzzle(page_puzzles[idx + 1], puzzle_number(idx, page_num),
                                     drawing_fails)),
                  drawing_fails)

\* mutant: ten puzzles to the page
page_step_ten == puzzles_per_page + 1

\* the step of range(0, len(puzzles), self.puzzles_per_page)
page_step == puzzles_per_page

PuzzlePage(page_num, diagrams) ==
    [kind |-> "puzzles", page_num |-> page_num, diagrams |-> diagrams, lines |-> <<>>]

SolutionPage(page_num, lines) ==
    [kind |-> "solutions", page_num |-> page_num, diagrams |-> <<>>, lines |-> lines]

\* the loop of generate over the puzzle pages: the pages shown, and whether
\* a puzzle raised (the page it stood on is not shown)
RECURSIVE puzzle_pages(_, _, _, _)
puzzle_pages(list, i, pages, drawing_fails) ==
    IF i >= Len(list) THEN [pages |-> pages, raised |-> FALSE]
    ELSE LET page_puzzles == SubSeq(list, i + 1, Min(i + puzzles_per_page, Len(list)))
             page_num == (i \div puzzles_per_page) + 1
             page == draw_puzzle_page(page_puzzles, 0, page_num, <<>>, drawing_fails)
         IN IF page.raised THEN [pages |-> pages, raised |-> TRUE]
            ELSE puzzle_pages(list, i + page_step,
                              Append(pages, PuzzlePage(page_num, page.diagrams)),
                              drawing_fails)

\* PuzzlePDFGenerator.generate: _draw_puzzle parses every puzzle's position
\* outside any try, so one that does not parse ends the generation
generate_raises(list) == \E i \in 1..Len(list) : ~BoardParses(list[i].fen)

\* not puzzle.get('fen') or not puzzle.get('moves')
solution_skipped(puzzle) == puzzle.fen.start = "" \/ puzzle.moves = <<>>

\* the try around chess.Board and _format_solution
solution_text(puzzle) ==
    IF ~BoardParses(puzzle.fen) THEN [text |-> "Error", parts |-> <<>>]
    ELSE LET got == format_solution(Board(puzzle.fen), puzzle.moves)
         IN [text |-> got.text, parts |-> got.parts]

\* mutant: the page is turned one line late
new_page_needed_late(y, solutions_on_page) ==
    y < bottom_margin \/ solutions_on_page > solutions_per_page

\* y < bottom_margin or solutions_on_page >= solutions_per_page
new_page_needed(y, solutions_on_page) ==
    y < bottom_margin \/ solutions_on_page >= solutions_per_page

\* mutant: a skipped puzzle leaves an empty line
after_skipped_line(st) ==
    [st EXCEPT !.y = @ - line_height, !.solutions_on_page = @ + 1]

\* the open page after a puzzle without position or moves: `continue`
after_skipped(st) == st

\* the loop of _draw_all_solutions; st holds the pages shown, and of the
\* open page its number, line count, cursor and lines (each with the
\* height it was drawn at)
RECURSIVE solutions_loop(_, _, _)
solutions_loop(list, idx, st) ==
    IF idx >= Len(list) THEN st
    ELSE LET puzzle == list[idx + 1]
             puzzle_num == idx + 1
             turned ==
                 IF new_page_needed(st.y, st.solutions_on_page)
                 THEN [pages |-> Append(st.pages, SolutionPage(st.page_num, st.lines)),
                       page_num |-> st.page_num + 1,
                       solutions_on_page |-> 0,
                       y |-> page_height - top_margin,
                       lines |-> <<>>]
                 ELSE st
         IN IF solution_skipped(puzzle)
            THEN solutions_loop(list, idx + 1, after_skipped(turned))
            ELSE solutions_loop(list, idx + 1,
                    [turned EXCEPT
                        !.lines = Append(@, [num |-> puzzle_num, id |-> puzzle.id,
                                             y |-> turned.y,
                                             solution |-> solution_text(puzzle)]),
                        !.y = @ - line_height,
                        !.solutions_on_page = @ + 1])

\* _draw_all_solutions, with the page left open at its end
draw_all_solutions(list) ==
    solutions_loop(list, 0,
        [pages |-> <<>>, page_num |-> 1, solutions_on_page |-> 0,
         y |-> page_height - top_margin, lines |-> <<>>])

\* generate: the pages of the canvas, and whether c.save() was reached (the
\* open page is shown by it)
generate(list, drawing_fails) ==
    LET drawn == puzzle_pages(list, 0, <<>>, drawing_fails)
    IN IF generate_raises(list)
       THEN [called |-> TRUE, puzzles |-> list, pages |-> drawn.pages, saved |-> FALSE]
       ELSE LET st == draw_all_solutions(list)
            IN [called |-> TRUE, puzzles |-> list,
                pages |-> drawn.pages \o st.pages
                          \o <<SolutionPage(st.page_num, st.lines)>>,
                saved |-> TRUE]

NoCanvas == [called |-> FALSE, puzzles |-> <<>>, pages |-> <<>>, saved |-> FALSE]

\* the puzzle lists generate is called with directly: n puzzles numbered in
\* their ids, all in order but the k-th, which is of the given kind
WorksheetKinds == {"white", "black", "bad fen", "no fen", "no moves", "bad moves"}

WorksheetPuzzle(i, kind) ==
    [id |-> ToString(i),
     fen |-> CASE kind = "bad fen" -> FenBad
               [] kind = "no fen" -> FenEmpty
               [] kind = "black" -> fen_of(push(Board(FenW), from_uci("e2e4")))
               [] OTHER -> FenW,
     moves |-> CASE kind = "no moves" -> <<>>
                 [] kind = "bad moves" -> <<"zz", "e7e5", "e2e4">>
                 [] kind = "black" -> <<"e7e5", "g1f3">>
                 [] OTHER -> <<"e2e4">>,
     rating |-> 1000 + i,
     themes |-> <<"fork">>]

WorksheetsOf(n) ==
    {[i \in 1..n |-> WorksheetPuzzle(i, IF i = k THEN kind
                                        ELSE IF i % 2 = 1 THEN "white" ELSE "black")] :
        k \in 1..n, kind \in WorksheetKinds}

\* the lengths of those lists: up to ten puzzles, and the lengths around the
\* page breaks of the puzzle pages (18, 27, 36) and of the solution pages (30)
WorksheetLengths ==
    (1..(puzzles_per_page + 1))
        \cup {2 * puzzles_per_page + d : d \in 0..2}
        \cup {3 * puzzles_per_page + d : d \in 0..1}
        \cup {solutions_per_page + d : d \in 0..1}
        \cup {MaxPuzzleCount + d : d \in 0..1}

Worksheets == UNION {WorksheetsOf(n) : n \in WorksheetLengths}

---------------------------------------------------------------------------
(* The state machine *)

Request(theme, min_rating, max_rating, count) ==
    [theme |-> theme, min_rating |-> min_rating, max_rating |-> max_rating, count |-> count]

\* counts a web request may carry, valid and not
WebCounts == 0..MaxCount \cup {MaxPuzzleCount + 1}

\* counts the command line carries here (it validates nothing): none and
\* one; larger counts reach the same fetch_puzzles_by_theme through the web
\* form
CliCounts == {0, 1}

(* Two requests served at once.  Each runs generate_puzzles in a thread of  *)
(* its own; the module global _puzzle_fetcher and the fetcher it names are  *)
(* shared, the locals of a call live in the frame of that call.             *)

Threads == {1, 2}

\* what the two clients ask for
ThreadRequest(t) ==
    IF t = 1 THEN Request("Fork", 800, 1400, 1) ELSE Request("pin", 800, 1400, 2)

\* what the remote answers to either of them
ConcJsons == {[puzzle |-> ApiA], [puzzle |-> ApiG]}

ConcBatches == SeqsUpTo(ConcJsons, 1)

NoLocals == [puzzles |-> <<>>, rnd |-> NoFrame]

NewThread(t) ==
    [pc |-> "start", req |-> ThreadRequest(t), fetcher |-> 0, fetched |-> <<>>,
     collected |-> <<>>]

\* mutant: the lists are kept on the shared fetcher
frame_of_fetcher(t) == 1

\* the frame holding the locals of thread t's call of fetch_puzzles_by_theme
\* (puzzles = [] makes a fresh list in every call)
frame_of(t) == t

Init ==
    /\ pc = "idle"
    /\ caller = "none"
    /\ req = NoRequest
    /\ activity = "none"
    /\ puzzles = <<>>
    /\ rnd = NoFrame
    /\ discarded = <<>>
    /\ fetched = <<>>
    /\ response = "none"
    /\ document = "none"
    /\ puzzle_cache = <<>>
    /\ pool = <<>>
    /\ sampled = <<>>
    /\ canvas = NoCanvas
    /\ formatted = NotFormatted
    /\ image = NotRendered
    /\ puzzle_fetcher = 0
    /\ instances = 0
    /\ frames = [f \in Threads |-> NoLocals]
    /\ threads = [t \in Threads |-> NewThread(t)]

\* a count that needs a second puzzle page
TwoPages == puzzles_per_page + 1

\* the requests the web form sends: every theme, band and count of the
\* model, and one for more puzzles than a page holds
WebRequests ==
    {Request(theme, band[1], band[2], count) :
        theme \in Themes, band \in Bands \cup {InvertedBand}, count \in WebCounts}
    \cup {Request("pin", 800, 1400, TwoPages)}

\* mutant: only the upper end of the count is tested
count_out_of_range_upper(count) == count > MaxPuzzleCount

\* count < 1 or count > 36
count_out_of_range(count) == count < 1 \/ count > MaxPuzzleCount

\* generate_puzzles up to the call of fetch_puzzles_by_theme
WebRequest ==
    /\ pc = "idle"
    /\ \E r \in WebRequests :
         /\ caller' = "web"
         /\ req' = r
         /\ IF r.min_rating >= r.max_rating
            THEN /\ response' = "400 rating"
                 /\ pc' = "done"
            ELSE IF count_out_of_range(r.count)
            THEN /\ response' = "400 count"
                 /\ pc' = "done"
            ELSE /\ response' = "none"
                 /\ pc' = "activity"
    /\ UNCHANGED <<conc_vars, discarded, print_vars, activity, puzzles, rnd, fetched,
                   document, puzzle_cache, pool, sampled>>

\* main up to the call of fetch_puzzles_by_theme
CliMain ==
    /\ pc = "idle"
    /\ \E theme \in Themes, band \in Bands \cup {InvertedBand}, count \in CliCounts :
         /\ caller' = "cli"
         /\ req' = Request(theme, band[1], band[2], count)
         /\ pc' = "activity"
    /\ UNCHANGED <<conc_vars, discarded, print_vars, activity, puzzles, rnd, fetched,
                   response, document, puzzle_cache, pool, sampled>>

\* fetch_puzzles_by_theme after the activity strategy, for the list it
\* collected: probe for the rest, or return
AfterActivity(list) ==
    /\ puzzles' = list
    /\ discarded' = <<>>
    /\ IF Len(list) < req.count
       THEN /\ rnd' = [puzzles |-> <<>>, attempts |-> 0,
                       count |-> req.count - Len(list), mode |-> "extend"]
            /\ pc' = "daily"
            /\ UNCHANGED fetched
       ELSE /\ rnd' = NoFrame
            /\ fetched' = fetch_return(list, req.count)
            /\ pc' = "fetched"
    /\ UNCHANGED response

\* mutant: only a failed request is caught
except_catches_request_only(raised) == raised = "exception"

\* `except Exception` around the activity strategy: the classes it catches,
\* of those the strategy raises (a failed request, a body that is no JSON,
\* an entry that is no object)
except_catches(raised) == raised \in {"exception", "malformed", "bad entry"}

\* fetch_puzzles_by_theme: the activity strategy raised, with the list
\* collected so far still in puzzles; what is not caught reaches the caller
ActivityRaised(raised, list) ==
    /\ puzzles' = list
    /\ IF except_catches(raised)
       THEN /\ rnd' = [puzzles |-> <<>>, attempts |-> 0, count |-> req.count,
                       mode |-> "replace"]
            /\ discarded' = list
            /\ pc' = "daily"
            /\ UNCHANGED response
       ELSE /\ rnd' = NoFrame
            /\ discarded' = <<>>
            /\ pc' = "done"
            /\ response' = IF caller = "web" THEN "500" ELSE "traceback"
    /\ UNCHANGED fetched

\* fetch_puzzles_by_theme: the activity request and what follows until the
\* next request is sent
FetchActivity ==
    /\ pc = "activity"
    /\ \/ \E kind \in {"exception", "malformed"} :
            /\ activity' = kind
            /\ ActivityRaised(kind, <<>>)
       \/ /\ activity' = "non200"
          /\ AfterActivity(<<>>)
       \/ \E activity_data \in ActivityBatches :
            LET got == ActivityLoop(activity_data, <<>>, req)
            IN IF got.raised
               THEN /\ activity' = "bad entry"
                    /\ ActivityRaised("bad entry", got.puzzles)
               ELSE /\ activity' = "ok"
                    /\ AfterActivity(got.puzzles)
    /\ UNCHANGED <<conc_vars, print_vars, caller, req, document, puzzle_cache, pool,
                   sampled>>

\* _fetch_random_puzzles: the daily puzzle
FetchDaily ==
    /\ pc = "daily"
    /\ \/ rnd' = rnd
       \/ \E daily \in PuzzleJsons :
            rnd' = [rnd EXCEPT !.puzzles = probe_result(rnd.puzzles, daily, req)]
    /\ pc' = "probe"
    /\ UNCHANGED <<conc_vars, discarded, print_vars, caller, req, activity, puzzles,
                   fetched, response, document, puzzle_cache, pool, sampled>>

\* _fetch_random_puzzles: one turn of the while loop, one random identifier
ProbeRandomId ==
    /\ pc = "probe"
    /\ probe_loop_continues(rnd)
    /\ \/ rnd' = [rnd EXCEPT !.attempts = @ + 1]
       \/ \E puzzle_json \in PuzzleJsons :
            rnd' = [rnd EXCEPT !.attempts = @ + 1,
                               !.puzzles = probe_result(rnd.puzzles, puzzle_json, req)]
    /\ UNCHANGED <<conc_vars, discarded, print_vars, pc, caller, req, activity,
                   puzzles, fetched, response, document, puzzle_cache, pool, sampled>>

\* mutant: the probing result is appended in the except branch too
after_probing_extended(list, frame) == list \o frame.puzzles

\* what fetch_puzzles_by_theme holds once _fetch_random_puzzles returned
after_probing(list, frame) ==
    IF frame.mode = "extend" THEN list \o frame.puzzles ELSE frame.puzzles

\* _fetch_random_puzzles returns, and fetch_puzzles_by_theme with it
ReturnFetched ==
    /\ pc = "probe"
    /\ ~probe_loop_continues(rnd)
    /\ puzzles' = after_probing(puzzles, rnd)
    /\ fetched' = fetch_return(puzzles', req.count)
    /\ pc' = "fetched"
    /\ UNCHANGED <<conc_vars, discarded, print_vars, caller, req, activity, rnd,
                   response, document, puzzle_cache, pool, sampled>>

\* mutant: a single puzzle counts as none
not_puzzles_or_one(list) == Len(list) < 2

\* `if not puzzles`
not_puzzles(list) == list = <<>>

\* generate_puzzles / main: the test of the fetched list
Respond ==
    /\ pc = "fetched"
    /\ IF not_puzzles(fetched)
       THEN /\ response' = IF caller = "web" THEN "404 no puzzles" ELSE "no puzzles"
            /\ document' = "none"
            /\ pc' = "done"
       ELSE /\ response' = "none"
            /\ document' = "started"
            /\ pc' = "generating"
    /\ UNCHANGED <<conc_vars, discarded, print_vars, caller, req, activity, puzzles,
                   rnd, fetched, puzzle_cache, pool, sampled>>

\* generate_puzzles / main: PuzzlePDFGenerator.generate on the fetched list,
\* and the answer
GenerateDocument ==
    /\ pc = "generating"
    /\ \E drawing_fails \in BOOLEAN :
         canvas' = generate(fetched, drawing_fails)
    /\ IF ~canvas'.saved
       THEN /\ document' = "aborted"
            /\ response' = IF caller = "web" THEN "500" ELSE "traceback"
       ELSE /\ document' = "saved"
            /\ response' = IF caller = "web" THEN "200 pdf" ELSE "generated"
    /\ pc' = "done"
    /\ UNCHANGED <<conc_vars, discarded, formatted, image, caller, req, activity,
                   puzzles, rnd, fetched, puzzle_cache, pool, sampled>>

\* arguments the samplers are called with
SamplerThemes == Themes \cup {"fork"}

SamplerRequests ==
    {Request(theme, band[1], band[2], count) :
        theme \in SamplerThemes, band \in Bands, count \in 1..MaxCount}

\* the database loader
LoadDatabase ==
    /\ pc = "idle"
    /\ \E rows \in RowSeqs :
         /\ pool' = rows
         /\ puzzle_cache' = load_database(rows)
    /\ caller' = "cache"
    /\ pc' = "loaded"
    /\ UNCHANGED <<conc_vars, discarded, print_vars, req, activity, puzzles, rnd,
                   fetched, response, document, sampled>>

SampleFromCache ==
    /\ pc = "loaded"
    /\ \E r \in SamplerRequests :
         /\ req' = r
         /\ sampled' \in sample_from_cache(puzzle_cache, r)
    /\ pc' = "sampled"
    /\ UNCHANGED <<conc_vars, discarded, print_vars, caller, activity, puzzles, rnd,
                   fetched, response, document, puzzle_cache, pool>>

FetchFromDatabaseStream ==
    /\ pc = "idle"
    /\ \E r \in SamplerRequests, items \in Streams \cup BulkStreams, failed \in BOOLEAN :
         /\ req' = r
         /\ pool' = items
         /\ activity' = IF failed THEN "exception" ELSE "ok"
         /\ puzzles' = stream_candidates(items, failed, r)
         /\ sampled' \in fetch_from_database_stream(items, failed, r)
    /\ caller' = "stream"
    /\ pc' = "sampled"
    /\ UNCHANGED <<conc_vars, discarded, print_vars, rnd, fetched, response, document,
                   puzzle_cache>>

\* arguments _get_sample_puzzles is called with: every count a request may
\* carry
CuratedRequests ==
    {Request(theme, band[1], band[2], count) :
        theme \in SamplerThemes, band \in Bands, count \in 1..MaxPuzzleCount}

GetSamplePuzzles ==
    /\ pc = "idle"
    /\ \E r \in CuratedRequests :
         /\ req' = r
         /\ sampled' \in get_sample_puzzles(r)
    /\ caller' = "samples"
    /\ pc' = "sampled"
    /\ UNCHANGED <<conc_vars, discarded, print_vars, activity, puzzles, rnd, fetched,
                   response, document, puzzle_cache, pool>>

\* a call of _format_solution
FormatSolution ==
    /\ pc = "idle"
    /\ \E board \in FormatBoards, moves \in MoveLists :
         LET got == format_solution(board, moves)
         IN formatted' = [called |-> TRUE, board |-> board, moves |-> moves,
                          text |-> got.text, parts |-> got.parts,
                          positions |-> got.positions]
    /\ caller' = "format"
    /\ pc' = "done"
    /\ UNCHANGED <<conc_vars, discarded, canvas, image, req, activity, puzzles, rnd,
                   fetched, response, document, puzzle_cache, pool, sampled>>

\* a call of ChessBoardRenderer.render_position
RenderPosition ==
    /\ pc = "idle"
    /\ \E fen \in RenderFens, drawing_fails \in BOOLEAN :
         image' = [called |-> TRUE, fen |-> fen, drawing_fails |-> drawing_fails,
                   result |-> render_position(fen, drawing_fails)]
    /\ caller' = "render"
    /\ pc' = "done"
    /\ UNCHANGED <<conc_vars, discarded, canvas, formatted, req, activity, puzzles,
                   rnd, fetched, response, document, puzzle_cache, pool, sampled>>

\* a call of PuzzlePDFGenerator.generate on a list of 1 to 37 puzzles
GenerateWorksheet ==
    /\ pc = "idle"
    /\ \E list \in Worksheets, drawing_fails \in BOOLEAN :
         canvas' = generate(list, drawing_fails)
    /\ document' = IF canvas'.saved THEN "saved" ELSE "aborted"
    /\ caller' = "generate"
    /\ pc' = "done"
    /\ UNCHANGED <<conc_vars, discarded, formatted, image, req, activity, puzzles,
                   rnd, fetched, response, puzzle_cache, pool, sampled>>

Next ==
    \/ WebRequest
    \/ CliMain
    \/ FetchActivity
    \/ FetchDaily
    \/ ProbeRandomId
    \/ ReturnFetched
    \/ Respond
    \/ GenerateDocument
    \/ LoadDatabase
    \/ SampleFromCache
    \/ FetchFromDatabaseStream
    \/ GetSamplePuzzles
    \/ FormatSolution
    \/ RenderPosition
    \/ GenerateWorksheet

Spec == Init /\ [][Next]_vars

\* the steps of one call of fetch_puzzles_by_theme, from either caller
FetchNext ==
    \/ WebRequest
    \/ CliMain
    \/ FetchActivity
    \/ FetchDaily
    \/ ProbeRandomId
    \/ ReturnFetched

\* a running _fetch_random_puzzles goes on running: every probe ends (the
\* request has a timeout) and the loop test follows it
FairSpec == Init /\ [][FetchNext]_vars /\ WF_vars(ProbeRandomId \/ ReturnFetched)

---------------------------------------------------------------------------
(* The steps of a concurrent request *)

\* generate_puzzles: the arguments pass validation
AcceptRequest(t) ==
    /\ threads[t].pc = "start"
    /\ ~(threads[t].req.min_rating >= threads[t].req.max_rating)
    /\ ~count_out_of_range(threads[t].req.count)
    /\ threads' = [threads EXCEPT ![t].pc = "check"]
    /\ UNCHANGED <<seq_vars, puzzle_fetcher, instances, frames>>

\* get_puzzle_fetcher: if _puzzle_fetcher is None
CheckFetcher(t) ==
    /\ threads[t].pc = "check"
    /\ threads' = [threads EXCEPT ![t].pc = IF puzzle_fetcher = 0 THEN "create"
                                            ELSE "return"]
    /\ UNCHANGED <<seq_vars, puzzle_fetcher, instances, frames>>

\* get_puzzle_fetcher: _puzzle_fetcher = PuzzleFetcher()
CreateFetcher(t) ==
    /\ threads[t].pc = "create"
    /\ instances' = instances + 1
    /\ puzzle_fetcher' = instances'
    /\ threads' = [threads EXCEPT ![t].pc = "return"]
    /\ UNCHANGED <<seq_vars, frames>>

\* get_puzzle_fetcher: return _puzzle_fetcher
ReturnFetcher(t) ==
    /\ threads[t].pc = "return"
    /\ threads' = [threads EXCEPT ![t].pc = "activity", ![t].fetcher = puzzle_fetcher]
    /\ UNCHANGED <<seq_vars, puzzle_fetcher, instances, frames>>

\* fetch_puzzles_by_theme: puzzles = [], the activity request and the loop
\* over its entries
ThreadActivity(t) ==
    /\ threads[t].pc = "activity"
    /\ LET f == frame_of(t)
           r == threads[t].req
       IN \/ /\ frames' = [frames EXCEPT ![f] =
                              [puzzles |-> <<>>,
                               rnd |-> [puzzles |-> <<>>, attempts |-> 0,
                                        count |-> r.count, mode |-> "replace"]]]
             /\ threads' = [threads EXCEPT ![t].pc = "daily", ![t].collected = <<>>]
          \/ \E activity_data \in ConcBatches :
               LET got == ActivityLoop(activity_data, <<>>, r).puzzles
               IN IF Len(got) < r.count
                  THEN /\ frames' = [frames EXCEPT ![f] =
                                       [puzzles |-> got,
                                        rnd |-> [puzzles |-> <<>>, attempts |-> 0,
                                                 count |-> r.count - Len(got),
                                                 mode |-> "extend"]]]
                       /\ threads' = [threads EXCEPT ![t].pc = "daily",
                                                     ![t].collected = got]
                  ELSE /\ frames' = [frames EXCEPT ![f] = NoLocals]
                       /\ threads' = [threads EXCEPT
                                         ![t].pc = "fetched",
                                         ![t].collected = got,
                                         ![t].fetched = fetch_return(got, r.count)]
    /\ UNCHANGED <<seq_vars, puzzle_fetcher, instances>>

\* _fetch_random_puzzles: the daily puzzle
ThreadDaily(t) ==
    /\ threads[t].pc = "daily"
    /\ LET f == frame_of(t)
           r == threads[t].req
       IN \/ /\ UNCHANGED frames
             /\ threads' = [threads EXCEPT ![t].pc = "probe"]
          \/ \E daily \in ConcJsons :
               /\ frames' = [frames EXCEPT ![f].rnd.puzzles = probe_result(@, daily, r)]
               /\ threads' = [threads EXCEPT
                                 ![t].pc = "probe",
                                 ![t].collected = probe_result(@, daily, r)]
    /\ UNCHANGED <<seq_vars, puzzle_fetcher, instances>>

\* _fetch_random_puzzles: one turn of the while loop
ThreadProbe(t) ==
    /\ threads[t].pc = "probe"
    /\ LET f == frame_of(t)
           r == threads[t].req
       IN /\ probe_loop_continues(frames[f].rnd)
          /\ \/ /\ frames' = [frames EXCEPT ![f].rnd.attempts = @ + 1]
                /\ UNCHANGED threads
             \/ \E puzzle_json \in ConcJsons :
                  /\ frames' = [frames EXCEPT
                                  ![f].rnd.attempts = @ + 1,
                                  ![f].rnd.puzzles = probe_result(@, puzzle_json, r)]
                  /\ threads' = [threads EXCEPT
                                    ![t].collected = probe_result(@, puzzle_json, r)]
    /\ UNCHANGED <<seq_vars, puzzle_fetcher, instances>>

\* _fetch_random_puzzles and fetch_puzzles_by_theme return, and the frame
\* of the call is gone
ThreadReturn(t) ==
    /\ threads[t].pc = "probe"
    /\ LET f == frame_of(t)
           r == threads[t].req
           list == after_probing(frames[f].puzzles, frames[f].rnd)
       IN /\ ~probe_loop_continues(frames[f].rnd)
          /\ frames' = [frames EXCEPT ![f] = NoLocals]
          /\ threads' = [threads EXCEPT ![t].pc = "fetched",
                                        ![t].fetched = fetch_return(list, r.count)]
    /\ UNCHANGED <<seq_vars, puzzle_fetcher, instances>>

ConcNext ==
    \E t \in Threads :
        \/ AcceptRequest(t)
        \/ CheckFetcher(t)
        \/ CreateFetcher(t)
        \/ ReturnFetcher(t)
        \/ ThreadActivity(t)
        \/ ThreadDaily(t)
        \/ ThreadProbe(t)
        \/ ThreadReturn(t)

ConcSpec == Init /\ [][ConcNext]_vars

---------------------------------------------------------------------------
(* Properties *)

\* a call of fetch_puzzles_by_theme is running or has returned
Fetching == caller \in {"web", "cli"}

\* a sampler has returned
Sampled(who) == caller = who /\ pc = "sampled"

InBand(rating, r) == r.min_rating <= rating /\ rating <= r.max_rating

\* C1: every puzzle fetch_puzzles_by_theme returns reports a rating inside
\* the requested band and lists the requested theme (case-insensitively),
\* for every band min < max and count in 1..36.
C1_FetchedMatchRequest ==
    (Fetching /\ req.min_rating < req.max_rating /\ req.count \in 1..MaxPuzzleCount)
    => \A i \in 1..Len(fetched) :
          /\ InBand(fetched[i].rating, req)
          /\ Lower(req.theme) \in {Lower(t) : t \in Range(fetched[i].themes)}

\* C2: the list returned by fetch_puzzles_by_theme, and the list returned
\* by each sampler, is never longer than the requested count.
C2_AtMostCount ==
    /\ Fetching => Len(fetched) <= req.count
    /\ pc = "sampled" => Len(sampled) <= req.count

\* C2 witness: a fetch returned a full list made of an activity match
\* followed by a probing match.
C2_Witness ==
    /\ Fetching /\ pc = "fetched"
    /\ req.count = 2 /\ Len(fetched) = 2
    /\ rnd.mode = "extend" /\ Len(rnd.puzzles) = 1

\* rows of the loaded file that pass the filter of request r
RowPasses(row, r) ==
    /\ IntParses(row.Rating)
    /\ InBand(int(row.Rating), r)
    /\ Lower(r.theme) \in {Lower(t) : t \in Range(split(row.Themes))}

\* rows that name a puzzle: identifier, position and moves are present
RowComplete(row) == row.PuzzleId # "" /\ row.FEN.start # "" /\ split(row.Moves) # <<>>

\* rows whose setup move applies to their position
RowDerives(row) == row.FEN.valid /\ UciParses(split(row.Moves)[1])

\* C3: the cache sampler returns exactly count puzzles whenever at least
\* count distinct records of the pool pass the filter and derive.
C3_FullWhenPoolSuffices ==
    Sampled("cache") =>
        LET good == {row \in Range(pool) :
                        RowComplete(row) /\ RowPasses(row, req) /\ RowDerives(row)}
        IN Cardinality(good) >= req.count => Len(sampled) = req.count

\* identifiers of a list of puzzles
Ids(list) == {list[i].id : i \in 1..Len(list)}

NoRepeat(list) == \A i, j \in 1..Len(list) : list[i].id = list[j].id => i = j

\* the rows a sampler was offered: the loaded file, or the rows the stream describes
PoolRows == IF caller = "stream" THEN {pool[i].row : i \in 1..Len(pool)} ELSE Range(pool)

\* the unique filter-passing records of the pool
Matches == {row \in PoolRows : RowComplete(row) /\ RowPasses(row, req)}

\* the place in the stream of the row described by item i
RECURSIVE RowNumber(_, _)
RowNumber(items, i) == IF i = 0 THEN 0 ELSE RowNumber(items, i - 1) + items[i].gap + 1

\* the rows the stream loop gets to read before its scan cap
RowsScanned ==
    {pool[i].row : i \in {j \in 1..Len(pool) : RowNumber(pool, j) < max_iterations * 1000}}

\* a primary sampler returned, the stream having been read without error
PrimarySampled == Sampled("cache") \/ (Sampled("stream") /\ activity = "ok")

C5_FetchedIdsDistinct == Fetching => NoRepeat(fetched)

\* the activity strategy of the running fetch is over
ActivityOver == Fetching /\ activity # "none"

\* C6: when the activity strategy fails or under-fills, no exception reaches
\* the caller and the probing strategy is run: a fetch that goes on without
\* probing had a sound activity batch with count matches.
C6_ActivityFailureFallsThrough ==
    (ActivityOver /\ req.count >= 1)
    => /\ response \notin {"500", "traceback"} \/ document = "aborted"
       /\ rnd.mode = "none" => (activity = "ok" /\ Len(puzzles) >= req.count)
       /\ activity \in {"exception", "malformed", "bad entry"} => rnd.mode = "replace"

\* C6 witness: a batch that raised half-way, and the list that probing
\* found returned all the same.
C6_Witness ==
    /\ Fetching /\ pc = "fetched"
    /\ activity = "bad entry"
    /\ rnd.mode = "replace"
    /\ fetched # <<>>

\* C7: fetch_puzzles_by_theme returns an empty list only if the curated
\* table yields nothing for the request either.
C7_EmptyOnlyIfCuratedEmpty ==
    (Fetching /\ pc = "fetched" /\ req.count >= 1 /\ fetched = <<>>)
    => get_sample_puzzles(req) = {<<>>}

\* the request handler acted on the fetched list
Answered == Fetching /\ activity # "none" /\ pc \in {"generating", "done"}

\* C8: an empty fetched list ends the request with "no puzzles found" and no
\* document; a non-empty one always starts the document generation.
C8_EmptyIsTheOnlyRefusal ==
    Answered =>
        IF fetched = <<>>
        THEN /\ response \in {"404 no puzzles", "no puzzles"}
             /\ document = "none"
        ELSE /\ response \notin {"404 no puzzles", "no puzzles"}
             /\ document \in {"started", "saved", "aborted"}

\* C8 witness: a request answered with "no puzzles found".
C8_Witness ==
    /\ Answered /\ fetched = <<>>
    /\ response = "404 no puzzles"
    /\ rnd.attempts = req.count * ProbeFactor

\* the position one move after `fen`
OneMoveOn(fen, after, uci) ==
    /\ after.valid
    /\ after.start = fen.start
    /\ after.played = fen.played \o <<UciTable[uci]>>
    /\ after.turn # fen.turn
    /\ after.fullmove = fen.fullmove + (IF fen.turn = "b" THEN 1 ELSE 0)

\* a remote record whose setup move applies to its position
ApiDerives(src) ==
    /\ Get(src, "solution", <<>>) # <<>>
    /\ Get(src, "fen", FenStart).valid
    /\ UciParses(src.solution[1])

\* C9: a record with a non-empty solution whose first move applies is
\* delivered with its position one move on (that first move), the rest of
\* the solution in order, and its id, rating and themes as in the source.
C9_DerivedPuzzle ==
    /\ Fetching =>
         \A i \in 1..Len(fetched) : \A src \in ApiPuzzles \ {EmptyDict} :
            (src.id = fetched[i].id /\ ApiDerives(src)) =>
               /\ OneMoveOn(Get(src, "fen", FenStart), fetched[i].fen, src.solution[1])
               /\ fetched[i].moves = SubSeq(src.solution, 2, Len(src.solution))
               /\ "rating" \in DOMAIN src => fetched[i].rating = src.rating
               /\ fetched[i].themes = src.themes
    /\ (Sampled("cache") \/ Sampled("stream")) =>
         \A i \in 1..Len(sampled) : \A row \in PoolRows :
            (row.PuzzleId = sampled[i].id /\ RowDerives(row)) =>
               /\ OneMoveOn(row.FEN, sampled[i].fen, split(row.Moves)[1])
               /\ sampled[i].moves = SubSeq(split(row.Moves), 2, Len(split(row.Moves)))
               /\ sampled[i].rating = IntTable[row.Rating]
               /\ sampled[i].themes = split(row.Themes)

\* C9 witness: White's e2e4 applied, Black to move, e7e5 left to find.
C9_Witness ==
    /\ Fetching /\ pc = "fetched"
    /\ \E i \in 1..Len(fetched) :
          /\ fetched[i].id = "A"
          /\ fetched[i].fen.turn = "b"
          /\ fetched[i].moves = <<"e7e5">>

\* a remote record whose setup move cannot be applied to its position
ApiSetupFails(src) ==
    /\ Get(src, "solution", <<>>) # <<>>
    /\ ~Get(src, "fen", FenStart).valid \/ ~UciParses(src.solution[1])

\* C10: a record whose setup move fails to apply is in no returned list.
C10_FailedDerivationDropped ==
    Fetching =>
        \A i \in 1..Len(fetched) : \A src \in ApiPuzzles \ {EmptyDict} :
            src.id = fetched[i].id => ~ApiSetupFails(src)

\* the figurine notation of each move of the model
Figurine(move_uci) ==
    CASE move_uci = "e2e4" -> "e4"
      [] move_uci = "e7e5" -> "e5"
      [] move_uci = "g1f3" -> "<knight>f3"
      [] OTHER -> "?"

\* the token stands for this move: the move in brackets, or its notation
TokenFor(part, move_uci) ==
    \/ part.form = "[uci]" /\ part.text = move_uci
    \/ part.form # "[uci]" /\ part.text = Figurine(move_uci)

\* C11: _format_solution emits exactly len(moves) tokens, one per input
\* move and in input order, whatever mix of legal, illegal and unparsable
\* moves the list holds.
C11_OneTokenPerMove ==
    formatted.called =>
        /\ Len(formatted.parts) = Len(formatted.moves)
        /\ \A i \in 1..Len(formatted.moves) :
              TokenFor(formatted.parts[i], formatted.moves[i])

\* a list of three moves: one played, one illegal, one unparsable
C11_Witness ==
    /\ formatted.called
    /\ Len(formatted.moves) = MaxMoves
    /\ Len(formatted.parts) = MaxMoves
    /\ \E i, j, k \in 1..Len(formatted.moves) :
          /\ formatted.parts[i].form = "n. san"
          /\ formatted.parts[j] = Bracketed("e2e4")
          /\ formatted.parts[k] = Bracketed("zz")

\* the working position a move of the list is met in
Before(i) == IF i = 1 THEN formatted.board ELSE formatted.positions[i - 1]

IllegalAt(i) ==
    /\ UciParses(formatted.moves[i])
    /\ from_uci(formatted.moves[i]) \notin legal_moves(Before(i))

LegalAt(i) ==
    /\ UciParses(formatted.moves[i])
    /\ from_uci(formatted.moves[i]) \in legal_moves(Before(i))

\* C12: a move that is not legal in the working position yields the token
\* "[<move>]" and leaves the working position (placement, side to move,
\* full-move number) as it was; the moves after it are checked and numbered
\* against that position.
C12_IllegalMoveSkipped ==
    formatted.called =>
        \A i \in 1..Len(formatted.moves) :
            /\ IllegalAt(i) =>
                  /\ formatted.parts[i] = [form |-> "[uci]", num |-> 0,
                                           text |-> formatted.moves[i]]
                  /\ formatted.positions[i] = Before(i)
            /\ LegalAt(i) =>
                  /\ formatted.parts[i].form \in {"n. san", "n... san", "san"}
                  /\ formatted.parts[i].form # "san" =>
                        formatted.parts[i].num = Before(i).fullmove
                  /\ formatted.positions[i].played =
                        Append(Before(i).played, from_uci(formatted.moves[i]))
                  /\ formatted.positions[i].turn # Before(i).turn

\* an illegal move followed by a legal one that takes its number from the
\* position before the illegal move
C12_Witness ==
    /\ formatted.called
    /\ \E i \in 1..(Len(formatted.moves) - 1) :
          /\ IllegalAt(i)
          /\ LegalAt(i + 1)
          /\ formatted.parts[i].form = "[uci]"
          /\ formatted.parts[i + 1].form = "n... san"
          /\ formatted.parts[i + 1].num = Before(i).fullmove

\* the puzzle pages and the solution pages of a canvas, as they follow
PagesOfKind(kind) == SelectSeq(canvas.pages, LAMBDA page : page.kind = kind)

\* the diagram of the i-th puzzle stands where consecutive groups of nine
\* put it
DrawnInPlace(i) ==
    LET pages == PagesOfKind("puzzles")
        p == ((i - 1) \div 9) + 1
        slot == ((i - 1) % 9) + 1
    IN /\ p <= Len(pages)
       /\ slot <= Len(pages[p].diagrams)
       /\ pages[p].diagrams[slot].num = i
       /\ pages[p].diagrams[slot].id = canvas.puzzles[i].id

\* C13: for a puzzle list of length n, generate emits exactly ceil(n/9)
\* puzzle pages holding consecutive groups of nine puzzles (the last one the
\* remainder): every puzzle is drawn once, in order, at most nine to a page.
C13_PuzzlePagesInNines ==
    canvas.called =>
        LET n == Len(canvas.puzzles)
            pages == PagesOfKind("puzzles")
        IN /\ Len(pages) = (n + 8) \div 9
           /\ \A p \in 1..Len(pages) :
                 Len(pages[p].diagrams) = IF p * 9 <= n THEN 9 ELSE n - (p - 1) * 9
           /\ \A i \in 1..n : DrawnInPlace(i)

\* the solution lines of the canvas, in the order drawn
RECURSIVE LinesOf(_)
LinesOf(pages) ==
    IF pages = <<>> THEN <<>> ELSE Head(pages).lines \o LinesOf(Tail(pages))

\* the numbers of the puzzles of a list that have a position and moves
RECURSIVE WithSolution(_, _)
WithSolution(list, i) ==
    IF i > Len(list) THEN <<>>
    ELSE IF list[i].fen.start # "" /\ list[i].moves # <<>>
         THEN <<i>> \o WithSolution(list, i + 1)
         ELSE WithSolution(list, i + 1)

\* every puzzle page stands before every solution page
PuzzlePagesFirst ==
    \A a, b \in 1..Len(canvas.pages) :
        (canvas.pages[a].kind = "puzzles" /\ canvas.pages[b].kind = "solutions") => a < b

\* one solution line for every puzzle with a position and moves, in order
SolutionLinesInOrder ==
    LET lines == LinesOf(PagesOfKind("solutions"))
        due == WithSolution(canvas.puzzles, 1)
    IN /\ Len(lines) = Len(due)
       /\ \A j \in 1..Len(due) :
             lines[j].num = due[j] /\ lines[j].id = canvas.puzzles[due[j]].id

\* C14 as stated: the document produced for a request of count c has
\* ceil(c/9) puzzle pages, all before the solution pages, and one solution
\* line per puzzle with a position and moves, in puzzle order.
C14_PagesForRequestedCount ==
    (Fetching /\ canvas.saved) =>
        /\ canvas.puzzles = fetched
        /\ Len(PagesOfKind("puzzles")) = (req.count + 8) \div 9
        /\ PuzzlePagesFirst
        /\ SolutionLinesInOrder

\* C14 amended: the document produced for a request whose acquisition
\* returned n puzzles has ceil(n/9) puzzle pages, all before the solution
\* pages, and one solution line per puzzle with a position and moves, in
\* puzzle order.
C14_PagesForFetchedPuzzles ==
    (Fetching /\ canvas.saved) =>
        /\ canvas.puzzles = fetched
        /\ Len(PagesOfKind("puzzles")) = (Len(fetched) + 8) \div 9
        /\ PuzzlePagesFirst
        /\ SolutionLinesInOrder

\* C14 witness: ten puzzles were asked for, fewer were found, and the
\* document has one puzzle page and one solution line for each of them
C14_Witness ==
    /\ caller = "web" /\ canvas.saved
    /\ req.count = 10
    /\ Len(fetched) \in 2..9
    /\ Len(PagesOfKind("puzzles")) = 1
    /\ Len(LinesOf(PagesOfKind("solutions"))) = Len(fetched)

\* C15: render_position never lets an exception out; whenever a step of
\* rendering fails, an unparsable position included, it returns the blank
\* placeholder.
C15_RenderNeverRaises ==
    image.called =>
        /\ ~image.result.raised
        /\ (~image.fen.valid \/ image.drawing_fails) => image.result.blank

\* C16: whatever is wrong with one puzzle of a non-empty list (its position
\* does not parse or render, its solution cannot be formatted), generate
\* completes and saves the document, with the diagram of every other puzzle
\* and a solution line for every other puzzle that has moves.
C16_OnePuzzleNeverAborts ==
    (canvas.called /\ canvas.puzzles # <<>>) =>
        /\ canvas.saved
        /\ \A i \in 1..Len(canvas.puzzles) :
              canvas.puzzles[i].fen.valid =>
                 /\ DrawnInPlace(i)
                 /\ canvas.puzzles[i].moves # <<>> =>
                       \E j \in 1..Len(LinesOf(PagesOfKind("solutions"))) :
                           LinesOf(PagesOfKind("solutions"))[j].num = i

\* C17: /generate refuses every request with minRating >= maxRating or a
\* count outside 1..36 before anything is acquired, so every call of
\* fetch_puzzles_by_theme it makes has minRating < maxRating and a count in
\* 1..36.
C17_RejectedBeforeAcquisition ==
    caller = "web" =>
        IF req.min_rating >= req.max_rating \/ req.count < 1 \/ req.count > 36
        THEN /\ pc = "done"
             /\ response \in {"400 rating", "400 count"}
             /\ activity = "none" /\ rnd = NoFrame
             /\ puzzles = <<>> /\ fetched = <<>>
             /\ ~canvas.called
        ELSE pc # "done" \/ response \notin {"400 rating", "400 count"}

\* C17 witness: a count of 0 in a proper band is refused and nothing was
\* acquired
C17_Witness ==
    /\ caller = "web" /\ pc = "done"
    /\ req.count = 0 /\ req.min_rating < req.max_rating
    /\ response = "400 count"
    /\ activity = "none"

\* the remote record of this id passes the filter of thread t's request
MatchesOwn(t, id) ==
    \E src \in {ApiA, ApiG} :
        /\ src.id = id
        /\ threads[t].req.min_rating <= src.rating
        /\ src.rating <= threads[t].req.max_rating
        /\ Lower(threads[t].req.theme) \in {Lower(tag) : tag \in Range(src.themes)}

\* C18: however two concurrent requests on the shared fetcher interleave,
\* the list each gets back holds only records matched against its own theme
\* and band, at most its own count of them, and is exactly what its own
\* call collected: nothing of the other request in it, nothing taken out.
C18_RequestsIsolated ==
    \A t \in Threads :
        threads[t].pc = "fetched" =>
            /\ Len(threads[t].fetched) <= threads[t].req.count
            /\ \A i \in 1..Len(threads[t].fetched) :
                  MatchesOwn(t, threads[t].fetched[i].id)
            /\ threads[t].fetched = Take(threads[t].collected, threads[t].req.count)

\* C18 witness: both requests went through the same fetcher and each got
\* its own records, one for the first and two for the second
C18_Witness ==
    /\ \A t \in Threads : threads[t].pc = "fetched"
    /\ threads[1].fetcher = threads[2].fetcher /\ threads[1].fetcher # 0
    /\ Len(threads[1].fetched) = 1 /\ threads[1].fetched[1].id = "A"
    /\ Len(threads[2].fetched) = 2 /\ threads[2].fetched[1].id = "G"

\* one turn of the loop of _fetch_random_puzzles
ProbeTurn == pc = "probe" /\ pc' = "probe" /\ rnd' # rnd

\* C19: _fetch_random_puzzles makes at most 50 x count random-id attempts;
\* a turn of its loop is taken only while fewer than count puzzles are
\* collected, consumes exactly one attempt and, when the probe fails, adds
\* no record and does not end the loop; and the call always returns.
C19_ProbingTerminates ==
    /\ [](rnd.attempts <= 50 * rnd.count)
    /\ [][ProbeTurn =>
            /\ Len(rnd.puzzles) < rnd.count
            /\ rnd.attempts < 50 * rnd.count
            /\ rnd'.attempts = rnd.attempts + 1
            /\ \/ rnd'.puzzles = rnd.puzzles
               \/ /\ Len(rnd'.puzzles) = Len(rnd.puzzles) + 1
                  /\ SubSeq(rnd'.puzzles, 1, Len(rnd.puzzles)) = rnd.puzzles]_vars
    /\ (pc = "probe") ~> (pc = "fetched")

\* C19 witness: every one of the 50 x count attempts was spent without
\* enough matches, and the call returned
C19_Witness ==
    /\ pc = "fetched"
    /\ rnd.count = 2
    /\ rnd.attempts = 100
    /\ Len(rnd.puzzles) < rnd.count

\* how many entries the embedded table offers a request: those of the
\* theme (of mateIn2 for a theme it does not list) inside the band, or all
\* of the theme's when none is inside
CuratedOffer(r) ==
    LET table == IF r.theme \in DOMAIN all_samples THEN all_samples[r.theme]
                 ELSE all_samples["mateIn2"]
        inside == {i \in 1..Len(table) :
                     r.min_rating <= table[i].rating /\ table[i].rating <= r.max_rating}
    IN IF inside = {} THEN Len(table) ELSE Cardinality(inside)

\* C20: when the table offers m >= 1 entries and count > m,
\* _get_sample_puzzles cycles through the m entries until the result holds
\* exactly count puzzles, for every count in 1..36.
C20_RepeatsUntilCount ==
    (Sampled("samples") /\ CuratedOffer(req) >= 1 /\ req.count > CuratedOffer(req)) =>
        /\ Len(sampled) = req.count
        /\ \A i \in 1..Len(sampled) :
              sampled[i].id = sampled[((i - 1) % CuratedOffer(req)) + 1].id

\* the rows of the stream that lie before its scan cap: rows 1..99,999
BeforeScanCap ==
    {pool[i].row.PuzzleId : i \in {j \in 1..Len(pool) : RowNumber(pool, j) < 100000}}

\* list `part` takes its elements from distinct places of list `whole`
TakenOnceFrom(part, whole) ==
    \E f \in [1..Len(part) -> 1..Len(whole)] :
        /\ IsInjective(f)
        /\ \A i \in 1..Len(part) : part[i] = whole[f[i]]

NumberEmitted(i, n) ==
    \E j \in 1..(i - 1) :
        /\ formatted.parts[j].form \in {"n. san", "n... san"}
        /\ formatted.parts[j].num = n

\* C22: a legal move met with White to move gets the token "n. <san>", n the
\* working position's full-move number; met with Black to move it gets
\* "n... <san>" when no token was emitted for move number n yet, and the bare
\* "<san>" when a token for move number n was emitted before it.
C22_MoveNumberPrefixes ==
    formatted.called =>
        \A i \in 1..Len(formatted.moves) :
            LegalAt(i) =>
                LET n == Before(i).fullmove
                    part == formatted.parts[i]
                IN /\ Before(i).turn = "w" => (part.form = "n. san" /\ part.num = n)
                   /\ (Before(i).turn = "b" /\ ~NumberEmitted(i, n))
                         => (part.form = "n... san" /\ part.num = n)
                   /\ (Before(i).turn = "b" /\ NumberEmitted(i, n)) => part.form = "san"

\* C23: the first line of every solution page is drawn at the top margin
\* (720 pt) and every further line 12.96 pt below the one before; the pages
\* are numbered 1, 2, ... in their headers; a new page is started exactly
\* when 30 lines stand on the open page and another puzzle follows, so no
\* page holds more than 30 lines and no line lies below the bottom margin
\* (36 pt).
C23_SolutionPagination ==
    canvas.saved =>
        LET pages == PagesOfKind("solutions")
            last == pages[Len(pages)]
        IN /\ Len(pages) >= 1
           /\ \A p \in 1..Len(pages) :
                 /\ pages[p].page_num = p
                 /\ Len(pages[p].lines) <= 30
                 /\ p < Len(pages) => Len(pages[p].lines) = 30
                 /\ \A j \in 1..Len(pages[p].lines) :
                       /\ pages[p].lines[j].y = 72000 - (j - 1) * 1296
                       /\ pages[p].lines[j].y >= 3600
           /\ Len(last.lines) = 30 => last.lines[30].num = Len(canvas.puzzles)

\* C23 witness: a second solution page was started after thirty lines and
\* its first line stands at the top margin again.
C23_Witness ==
    /\ canvas.saved
    /\ Len(PagesOfKind("solutions")) = 2
    /\ Len(PagesOfKind("solutions")[1].lines) = 30
    /\ Len(PagesOfKind("solutions")[2].lines) >= 1
    /\ PagesOfKind("solutions")[2].lines[1].y = 72000
    /\ PagesOfKind("solutions")[2].page_num = 2

\* the solution page and the place on it of the j-th line drawn
LineAt(j) == PagesOfKind("solutions")[((j - 1) \div 30) + 1].lines[((j - 1) % 30) + 1]

\* C24: a puzzle without a position or without moves gets no solution line
\* and takes no room: the lines follow one another as if it were not in the
\* list, and each line shows its puzzle's place in the whole list.
C24_SkippedTakeNoLine ==
    canvas.saved =>
        LET due == WithSolution(canvas.puzzles, 1)
            lines == LinesOf(PagesOfKind("solutions"))
        IN /\ Len(lines) = Len(due)
           /\ \A j \in 1..Len(due) :
                 /\ lines[j] = LineAt(j)
                 /\ lines[j].y = 72000 - ((j - 1) % 30) * 1296
                 /\ lines[j].num = due[j]
                 /\ lines[j].id = canvas.puzzles[due[j]].id

\* C24 witness: a puzzle without moves stands between two puzzles whose
\* lines follow one another directly, numbered two apart.
C24_Witness ==
    /\ canvas.saved
    /\ \E i \in 2..(Len(canvas.puzzles) - 1) :
          /\ canvas.puzzles[i].moves = <<>>
          /\ \E j \in 1..(Len(LinesOf(PagesOfKind("solutions"))) - 1) :
                LET lines == LinesOf(PagesOfKind("solutions"))
                IN /\ lines[j].num = i - 1
                   /\ lines[j + 1].num = i + 1
                   /\ lines[j + 1].y = lines[j].y - 1296

\* the file letter and the rank number of a square 0..63 (a1 = 0, h8 = 63)
FileOf(sq) == FilesAH[(sq % 8) + 1]
RankOf(sq) == Ranks18[(sq \div 8) + 1]

\* a board was drawn
Drawn == image.called /\ ~image.result.raised /\ ~image.result.blank

\* C25: the orientation is decided by the side to move alone: with White to
\* move rank 1 fills the bottom row and file a the left column, with Black
\* to move rank 8 and file h; either way the 64 cells show the 64 squares,
\* each once, and the letter under a column and the number beside a row are
\* the file and the rank of every square in them.
C25_OrientationBySideToMove ==
    Drawn =>
        LET squares == image.result.squares
            white == image.fen.turn = "w"
        IN /\ image.result.flipped = ~white
           /\ DOMAIN squares = GridCells
           /\ \A k \in 0..7 :
                 /\ RankOf(squares[<<7, k>>]) = IF white THEN "1" ELSE "8"
                 /\ FileOf(squares[<<k, 0>>]) = IF white THEN "a" ELSE "h"
           /\ {squares[cell] : cell \in GridCells} = 0..63
           /\ \A c, d \in GridCells : squares[c] = squares[d] => c = d
           /\ \A cell \in GridCells :
                 /\ image.result.ranks[cell[1] + 1] = RankOf(squares[cell])
                 /\ image.result.files[cell[2] + 1] = FileOf(squares[cell])

\* C25 witness: a position with Black to move after a move was played is
\* drawn with h8 in the lower left corner.
C25_Witness ==
    /\ Drawn
    /\ image.fen.turn = "b" /\ image.fen.played # <<>>
    /\ image.result.squares[<<7, 0>>] = 63
    /\ image.result.files[1] = "h" /\ image.result.ranks[8] = "8"

\* the diagram drawn for the i-th puzzle of the list: on puzzle page
\* ceil(i/9), in the slot left over
DiagramOf(i) == PagesOfKind("puzzles")[((i - 1) \div 9) + 1].diagrams[((i - 1) % 9) + 1]

\* C26: for every puzzle that has a solution line, the number printed above
\* its diagram (slot + 9 x (page number - 1)) is the number printed on its
\* solution line (its place in the list), however many pages and skipped
\* puzzles there are.
C26_SameNumberOnBothPages ==
    canvas.saved =>
        LET due == WithSolution(canvas.puzzles, 1)
            lines == LinesOf(PagesOfKind("solutions"))
        IN /\ Len(lines) = Len(due)
           /\ \A j \in 1..Len(due) :
                 LET i == due[j]
                     page == PagesOfKind("puzzles")[((i - 1) \div 9) + 1]
                 IN /\ DiagramOf(i).id = canvas.puzzles[i].id
                    /\ lines[j].id = canvas.puzzles[i].id
                    /\ DiagramOf(i).num = ((i - 1) % 9) + 1 + 9 * (page.page_num - 1)
                    /\ DiagramOf(i).num = lines[j].num

\* C26 witness: a puzzle of the third puzzle page, behind a skipped one,
\* carries the same number on its diagram and on its solution line.
C26_Witness ==
    /\ canvas.saved
    /\ Len(PagesOfKind("puzzles")) >= 3
    /\ \E k \in 1..Len(canvas.puzzles) : canvas.puzzles[k].moves = <<>> /\ k < 20
    /\ \E j \in 1..Len(LinesOf(PagesOfKind("solutions"))) :
          /\ LinesOf(PagesOfKind("solutions"))[j].num = 20
          /\ j = 19
          /\ DiagramOf(20).num = 20

\* C27: get_puzzle_fetcher constructs at most one PuzzleFetcher, and every
\* request that got a fetcher from it got the same one, also when the first
\* calls run concurrently.
C27_OneFetcherForAll ==
    /\ instances <= 1
    /\ \A t, u \in Threads :
          (threads[t].fetcher # 0 /\ threads[u].fetcher # 0)
          => threads[t].fetcher = threads[u].fetcher

\* the activity strategy raised and the except branch took over
ActivityFailed == Fetching /\ activity \in {"exception", "malformed", "bad entry"}

\* C28: when the activity strategy raises with k >= 0 matches collected, the
\* probing run starts empty for the full count, and what
\* fetch_puzzles_by_theme returns is the first count records of that run
\* alone: the k records are dropped.
C28_FailedBatchDiscarded ==
    ActivityFailed =>
        /\ rnd.mode = "replace" /\ rnd.count = req.count
        /\ pc = "daily" => (rnd.puzzles = <<>> /\ rnd.attempts = 0 /\ puzzles = discarded)
        /\ pc \in {"fetched", "done"} =>
              /\ puzzles = rnd.puzzles
              /\ fetched = Take(rnd.puzzles, req.count)
              /\ Len(fetched) <= Len(rnd.puzzles)

\* C28 witness: the batch raised after one match was collected, probing
\* found nothing, and the empty list came back.
C28_Witness ==
    /\ ActivityFailed /\ pc = "fetched"
    /\ Len(discarded) = 1
    /\ rnd.puzzles = <<>>
    /\ fetched = <<>>

=============================================================================
